---- MODULE Spec2Model ----
(***************************************************************************)
(* Process lifecycle controller of src/bin/www.ts: startup of the HTTP     *)
(* listener and of the Prisma connection, the process-level handlers       *)
(* (uncaughtException, unhandledRejection, SIGINT), the listener 'error'   *)
(* handler, and the exit paths.                                            *)
(*                                                                         *)
(* The program runs on a single-threaded event loop.  The start-up code is *)
(* modelled statement by statement (variable pc); while pc is inside the   *)
(* synchronous part of the start-up no event callback is dispatched        *)
(* (run to completion).  Every awaited operation ($connect, $disconnect)   *)
(* and every emitted event ('listening', 'error', 'close') is a separate   *)
(* step of the environment.                                                *)
(***************************************************************************)
EXTENDS Integers, Sequences, FiniteSets, TLC

\* ---------------------------------------------------------------- bounds
MaxSigint == 2      \* SIGINT signals the operator sends
MaxFaults == 1      \* asynchronous faults raised by the rest of the process
MaxTasks  == 2      \* shutdown-handler invocations that may be started
MaxLen    == 3      \* length of the PORT strings tried on normalizePort

VARIABLES
  config,          \* process.env.PORT as a sequence of characters, <<>> when unset
  port,            \* result of normalizePort (line 12)
  pc,              \* position of the main script / start-up async function
  uncaughtReg,     \* process.on('uncaughtException') registered
  rejectionReg,    \* process.on('unhandledRejection') registered
  sigintReg,       \* process.on('SIGINT') registered
  onErrorReg,      \* server.on('error', onError) registered
  onListeningReg,  \* server.on('listening', onListening) registered
  connectOutcome,  \* "none" | "pending" | "ok" | "failed"  (db.$connect)
  initOutcome,     \* "none" | "ok" | "syncThrow" | "asyncFail" (initialize/index)
  listenCalled,    \* server.listen(port) has been called
  listener,        \* "none" | "bound" | "listening" | "closed" (server handle)
  serverEvent,     \* event the listener has scheduled: "none", "listening" or an error record
  readiness,       \* onListening has logged readiness
  pendingRej,      \* rejected promises nobody handles, not yet dispatched
  faultsRaised,    \* asynchronous faults raised so far by the environment
  sigintsSent,     \* SIGINT signals sent so far
  tasks,           \* invocations of the unhandledRejection / SIGINT handlers
  closeCbs,        \* callbacks waiting for the listener's 'close' event
  disconnectCalls, \* calls of db.$disconnect()
  disconnectDone,  \* calls of db.$disconnect() that have settled
  closeCalls,      \* calls of server.close()
  closeEmitted,    \* the listener's 'close' event has been emitted
  lastError,       \* the error object of the last 'error' event dispatched
  bindErrors,      \* classified listen errors handled by onError
  uncaughtSeen,    \* exceptions that reached the uncaughtException path
  exitBy,          \* "none" or the path that ended the process
  exitCode         \* code passed to process.exit, -1 when none was passed

vars == <<config, port, pc, uncaughtReg, rejectionReg, sigintReg, onErrorReg, onListeningReg,
          connectOutcome, initOutcome, listenCalled, listener, serverEvent,
          readiness, pendingRej, faultsRaised, sigintsSent, tasks, closeCbs,
          disconnectCalls, disconnectDone, closeCalls, closeEmitted,
          lastError, bindErrors, uncaughtSeen, exitBy, exitCode>>

\* ------------------------------------------------------------- constants of the domain
Syscalls   == {"listen", "accept"}
ErrorCodes == {"EACCES", "EADDRINUSE", "EADDRNOTAVAIL"}
ErrorEvent(syscall, code) == [name |-> "error", syscall |-> syscall, code |-> code]
ListenErrors   == {ErrorEvent("listen", c) : c \in ErrorCodes}
RuntimeErrors  == {ErrorEvent("accept", c) : c \in ErrorCodes}
ListeningEvent == [name |-> "listening", syscall |-> "", code |-> ""]
NoEvent        == [name |-> "none", syscall |-> "", code |-> ""]

\* ------------------------------------------------------------- port setup
Digits     == <<"0", "1", "2", "3", "4", "5", "6", "7", "8", "9">>
Whitespace == {" "}
Alphabet   == {"0", "5", "-", "+", " ", "x"}
ConfigStrings == UNION {[1..n -> Alphabet] : n \in 0..MaxLen}
DefaultPort == <<"5", "0", "5", "1">>

IsDigit(c) == \E d \in 1..10 : Digits[d] = c
DigitVal(c) == (CHOOSE d \in 1..10 : Digits[d] = c) - 1

\* Values of the three shapes normalizePort returns, and of an unset port.
NumberValue(n) == [tag |-> "number", num |-> n, str |-> <<>>]
StringValue(v) == [tag |-> "string", num |-> 0, str |-> v]
FalseValue     == [tag |-> "false", num |-> 0, str |-> <<>>]
Unresolved     == [tag |-> "unset", num |-> 0, str |-> <<>>]

RECURSIVE SkipWhitespace(_)
SkipWhitespace(v) ==
  IF v # <<>> /\ Head(v) \in Whitespace THEN SkipWhitespace(Tail(v)) ELSE v

\* Reads the leading run of decimal digits of v: acc is the value so far,
\* n the number of digits read.
RECURSIVE ReadDigits(_, _, _)
ReadDigits(v, acc, n) ==
  IF v # <<>> /\ IsDigit(Head(v))
    THEN ReadDigits(Tail(v), acc * 10 + DigitVal(Head(v)), n + 1)
    ELSE [value |-> acc, count |-> n]

\* parseInt(val, 10): leading white space is skipped, one sign is accepted,
\* the digits up to the first other character are read; NaN without a digit.
parseInt(val) ==
  LET t    == SkipWhitespace(val)
      neg  == t # <<>> /\ Head(t) = "-"
      body == IF t # <<>> /\ Head(t) \in {"-", "+"} THEN Tail(t) ELSE t
      r    == ReadDigits(body, 0, 0)
  IN  IF r.count = 0 THEN [nan |-> TRUE, value |-> 0]
      ELSE [nan |-> FALSE, value |-> IF neg THEN 0 - r.value ELSE r.value]

\* Variant: port 0 is refused.
normalizePort_positiveOnly(val) ==
  LET p == parseInt(val) IN
  IF p.nan THEN StringValue(val)
  ELSE IF p.value > 0 THEN NumberValue(p.value)
  ELSE FalseValue

\* normalizePort (lines 15-22)
normalizePort(val) ==
  LET p == parseInt(val) IN
  IF p.nan THEN StringValue(val)
  ELSE IF p.value >= 0 THEN NumberValue(p.value)
  ELSE FalseValue

\* line 12: process.env.PORT || '5051'
EnvPort(c) == IF c = <<>> THEN DefaultPort ELSE c

Running == exitBy = "none"

\* The start-up function is suspended at an await, has returned or has thrown:
\* the event loop is free to dispatch callbacks.
Idle == pc \in {"connecting", "done", "aborted"}

\* Variant: the listener is bound before the SIGINT listener is registered.
StartupOrder_listenEarly ==
  <<"resolvePort", "regUncaught", "connect", "connecting", "initialize", "regRejection",
    "listen", "regSigint", "regOnError", "regOnListening", "done">>

\* Variant: the two process listeners are registered before the connect.
StartupOrder_handlersBeforeConnect ==
  <<"resolvePort", "regUncaught", "regRejection", "regSigint", "connect",
    "connecting", "initialize", "listen", "regOnError", "regOnListening", "done">>

\* Variant: the connect is started but not awaited before the bind.
StartupOrder_listenBeforeConnect ==
  <<"resolvePort", "regUncaught", "regRejection", "regSigint", "listen",
    "regOnError", "regOnListening", "connect", "connecting", "initialize", "done">>

\* Statement order of the main script and of the start-up function.
StartupOrder ==
  <<"resolvePort", "regUncaught", "connect", "connecting", "initialize", "regRejection",
    "regSigint", "listen", "regOnError", "regOnListening", "done">>

RECURSIVE IndexOf(_, _, _)
IndexOf(s, x, i) == IF i > Len(s) THEN 0 ELSE IF s[i] = x THEN i ELSE IndexOf(s, x, i + 1)

After(p) == StartupOrder[IndexOf(StartupOrder, p, 1) + 1]

\* Variant: every listen error takes the friendly exit.
onError_handleAll(error) ==
  IF error.syscall # "listen" THEN "throw" ELSE "exit1"

\* Variant: the syscall of the error is not looked at.
onError_ignoreSyscall(error) ==
  CASE error.code = "EACCES"     -> "exit1"
    [] error.code = "EADDRINUSE" -> "exit1"
    [] OTHER                     -> "throw"

\* onError (lines 25-40): what the handler does with an error object.
onError(error) ==
  IF error.syscall # "listen" THEN "throw"
  ELSE CASE error.code = "EACCES"     -> "exit1"
         [] error.code = "EADDRINUSE" -> "exit1"
         [] OTHER                     -> "throw"

\* Variant: both handlers pass the same code.
ExitCodeFor_allOne(kind) == 1

\* Exit code passed by the server.close callback of each handler (lines 112, 120).
ExitCodeFor(kind) == IF kind = "SIGINT" THEN 0 ELSE 1

\* Variant: the catch clause rethrows.
startupConnect_rethrow(outcome) == IF outcome = "failed" THEN "rethrow" ELSE "continue"

\* try/catch around `await db.$connect()` (lines 67-73): the start-up function
\* continues whatever the outcome.
startupConnect(outcome) == "continue"

\* Variant: the catch clause rethrows.
closeAllExternalServices_rethrow(outcome) ==
  IF outcome = "failed" THEN "rejected" ELSE "resolved"

\* closeAllExternalServices (lines 90-99): the returned promise resolves
\* whatever the outcome of db.$disconnect().
closeAllExternalServices(outcome) == "resolved"

\* Variant: the uncaughtException listener exits with code 0.
FatalPath_exit0(reg) == IF reg THEN [by |-> "uncaughtException", code |-> 0]
                               ELSE [by |-> "crash", code |-> -1]

\* An exception nobody catches: the uncaughtException listener (lines 51-58)
\* when registered, the runtime's fatal crash otherwise.
FatalPath(reg) == IF reg THEN [by |-> "uncaughtException", code |-> 1]
                         ELSE [by |-> "crash", code |-> -1]

\* State of the process before line 12 runs, for a given PORT.
Start(c) ==
  /\ config = c /\ port = Unresolved
  /\ pc = "resolvePort"
  /\ uncaughtReg = FALSE /\ rejectionReg = FALSE /\ sigintReg = FALSE
  /\ onErrorReg = FALSE /\ onListeningReg = FALSE
  /\ connectOutcome = "none" /\ initOutcome = "none"
  /\ listenCalled = FALSE /\ listener = "none" /\ serverEvent = NoEvent
  /\ readiness = FALSE
  /\ pendingRej = 0 /\ faultsRaised = 0 /\ sigintsSent = 0
  /\ tasks = <<>> /\ closeCbs = <<>>
  /\ disconnectCalls = 0 /\ disconnectDone = 0 /\ closeCalls = 0
  /\ closeEmitted = FALSE /\ lastError = NoEvent /\ bindErrors = 0 /\ uncaughtSeen = 0
  /\ exitBy = "none" /\ exitCode = -1

\* PORT is not set: the default of line 12 applies.
Init == Start(<<>>)

\* PORT is any string of the bounded set.
PortInit == \E c \in ConfigStrings : Start(c)

\* ------------------------------------------------------------- frames
portV    == <<config, port>>
regs     == <<uncaughtReg, rejectionReg, sigintReg, onErrorReg, onListeningReg>>
startupV == <<connectOutcome, initOutcome, listenCalled>>
srvV     == <<listener, serverEvent, readiness>>
envV     == <<faultsRaised, sigintsSent>>
shutV    == <<tasks, closeCbs, disconnectCalls, disconnectDone, closeCalls, closeEmitted>>
histV    == <<lastError, bindErrors, uncaughtSeen>>
exitV    == <<exitBy, exitCode>>

\* ------------------------------------------------------------- main script
\* line 12: const port = normalizePort(process.env.PORT || '5051')
ResolvePort ==
  /\ Running /\ pc = "resolvePort"
  /\ port' = normalizePort(EnvPort(config))
  /\ pc' = After(pc)
  /\ UNCHANGED <<config, regs, startupV, srvV, pendingRej, envV, shutV, histV, exitV>>

\* line 51: process.on('uncaughtException', ...)
RegisterUncaught ==
  /\ Running /\ pc = "regUncaught"
  /\ uncaughtReg' = TRUE
  /\ pc' = After(pc)
  /\ UNCHANGED <<portV, rejectionReg, sigintReg, onErrorReg, onListeningReg, startupV,
                 srvV, pendingRej, envV, shutV, histV, exitV>>

\* lines 61-69: the start-up function runs up to `await db.$connect()`
StartConnect ==
  /\ Running /\ pc = "connect"
  /\ connectOutcome' = "pending"
  /\ pc' = After(pc)
  /\ UNCHANGED <<portV, regs, initOutcome, listenCalled, srvV, pendingRej, envV, shutV,
                 histV, exitV>>

\* lines 69-73: db.$connect() settles; the catch clause only logs
ConnectSettle(outcome) ==
  /\ Running /\ pc = "connecting" /\ connectOutcome = "pending"
  /\ connectOutcome' = outcome
  /\ IF outcome = "ok" \/ startupConnect(outcome) = "continue"
       THEN pc' = After(pc) /\ UNCHANGED pendingRej
       ELSE pc' = "aborted" /\ pendingRej' = pendingRej + 1
  /\ UNCHANGED <<portV, regs, initOutcome, listenCalled, srvV, envV, shutV, histV, exitV>>

\* line 76: require('../initialize/index'); the module may throw while it is
\* loaded, or start asynchronous work whose failure nobody handles
RunInitializer(outcome) ==
  /\ Running /\ pc = "initialize"
  /\ initOutcome' = outcome
  /\ pc' = IF outcome = "syncThrow" THEN "aborted" ELSE After(pc)
  /\ pendingRej' = IF outcome = "ok" THEN pendingRej ELSE pendingRej + 1
  /\ UNCHANGED <<portV, regs, connectOutcome, listenCalled, srvV, envV, shutV, histV, exitV>>

\* line 102: process.on('unhandledRejection', ...)
RegisterRejection ==
  /\ Running /\ pc = "regRejection"
  /\ rejectionReg' = TRUE
  /\ pc' = After(pc)
  /\ UNCHANGED <<portV, uncaughtReg, sigintReg, onErrorReg, onListeningReg, startupV,
                 srvV, pendingRej, envV, shutV, histV, exitV>>

\* line 115: process.on('SIGINT', ...)
RegisterSigint ==
  /\ Running /\ pc = "regSigint"
  /\ sigintReg' = TRUE
  /\ pc' = After(pc)
  /\ UNCHANGED <<portV, uncaughtReg, rejectionReg, onErrorReg, onListeningReg, startupV,
                 srvV, pendingRej, envV, shutV, histV, exitV>>

\* line 124: server.listen(port).  The bind succeeds ('listening' is scheduled),
\* fails (an 'error' event with syscall 'listen' is scheduled), or the call
\* itself throws because of its argument.
Listen(outcome) ==
  /\ Running /\ pc = "listen"
  /\ listenCalled' = TRUE
  /\ CASE outcome = "ok" ->
            /\ listener' = "bound" /\ serverEvent' = ListeningEvent
            /\ pc' = After(pc) /\ UNCHANGED pendingRej
       [] outcome = "throw" ->
            /\ pc' = "aborted" /\ pendingRej' = pendingRej + 1
            /\ UNCHANGED <<listener, serverEvent>>
       [] OTHER ->
            /\ serverEvent' = ErrorEvent("listen", outcome)
            /\ pc' = After(pc) /\ UNCHANGED <<listener, pendingRej>>
  /\ UNCHANGED <<portV, regs, connectOutcome, initOutcome, readiness, envV, shutV, histV, exitV>>

\* line 125: server.on('error', onError)
RegisterOnError ==
  /\ Running /\ pc = "regOnError"
  /\ onErrorReg' = TRUE
  /\ pc' = After(pc)
  /\ UNCHANGED <<portV, uncaughtReg, rejectionReg, sigintReg, onListeningReg, startupV,
                 srvV, pendingRej, envV, shutV, histV, exitV>>

\* line 126: server.on('listening', onListening)
RegisterOnListening ==
  /\ Running /\ pc = "regOnListening"
  /\ onListeningReg' = TRUE
  /\ pc' = After(pc)
  /\ UNCHANGED <<portV, uncaughtReg, rejectionReg, sigintReg, onErrorReg, startupV,
                 srvV, pendingRej, envV, shutV, histV, exitV>>

\* ------------------------------------------------------------- listener events
\* lines 45-48: the 'listening' event reaches onListening.  The event is only
\* emitted while the server still owns its handle.
EmitListening ==
  /\ Running /\ Idle
  /\ serverEvent = ListeningEvent /\ listener = "bound"
  /\ listener' = "listening"
  /\ serverEvent' = NoEvent
  /\ readiness' = (readiness \/ onListeningReg)
  /\ UNCHANGED <<portV, pc, regs, startupV, pendingRej, envV, shutV, histV, exitV>>

\* An error of the running listener that is not a bind error.
RuntimeError(error) ==
  /\ Running /\ Idle
  /\ listener = "listening" /\ serverEvent = NoEvent
  /\ serverEvent' = error
  /\ UNCHANGED <<portV, pc, regs, startupV, listener, readiness, pendingRej, envV, shutV,
                 histV, exitV>>

\* lines 25-40: the 'error' event reaches onError (an 'error' event without a
\* listener is thrown by the emitter).  A classified listen error ends the
\* process with process.exit(1); anything else is thrown and reaches the
\* uncaught-exception path.
EmitError ==
  /\ Running /\ Idle
  /\ serverEvent.name = "error"
  /\ serverEvent' = NoEvent
  /\ lastError' = serverEvent
  /\ LET act == IF onErrorReg THEN onError(serverEvent) ELSE "throw" IN
       IF act = "exit1"
         THEN /\ exitBy' = "bindError" /\ exitCode' = 1
              /\ bindErrors' = bindErrors + 1
              /\ UNCHANGED uncaughtSeen
         ELSE /\ exitBy' = FatalPath(uncaughtReg).by
              /\ exitCode' = FatalPath(uncaughtReg).code
              /\ uncaughtSeen' = uncaughtSeen + 1
              /\ UNCHANGED bindErrors
  /\ UNCHANGED <<portV, pc, regs, startupV, listener, readiness, pendingRej, envV, shutV>>

\* ------------------------------------------------------------- process events
\* Variant: the uncaughtException listener releases the dependency and closes
\* the listener before it exits, as the other two process handlers do.
UncaughtException_graceful ==
  /\ Running /\ Idle
  /\ Len(tasks) < MaxTasks
  /\ uncaughtSeen' = uncaughtSeen + 1
  /\ tasks' = Append(tasks, [kind |-> "unhandledRejection", st |-> "disconnecting",
                             disc |-> "pending"])
  /\ disconnectCalls' = disconnectCalls + 1
  /\ UNCHANGED <<portV, pc, regs, startupV, srvV, pendingRej, envV, closeCbs, disconnectDone,
                 closeCalls, closeEmitted, lastError, bindErrors, exitV>>

\* lines 51-58: a synchronous exception escapes a callback somewhere in the
\* process; the handler logs and calls process.exit(1).
UncaughtException ==
  /\ Running /\ Idle
  /\ exitBy' = FatalPath(uncaughtReg).by
  /\ exitCode' = FatalPath(uncaughtReg).code
  /\ uncaughtSeen' = uncaughtSeen + 1
  /\ UNCHANGED <<portV, pc, regs, startupV, srvV, pendingRej, envV, shutV, lastError, bindErrors>>

\* An asynchronous fault somewhere in the process: a promise is rejected and
\* nobody handles the rejection.
RaiseFault ==
  /\ Running /\ Idle
  /\ faultsRaised < MaxFaults
  /\ faultsRaised' = faultsRaised + 1
  /\ pendingRej' = pendingRej + 1
  /\ UNCHANGED <<portV, pc, regs, startupV, srvV, sigintsSent, shutV, histV, exitV>>

\* Variant: the handler releases the dependency only when the connect succeeded.
StartHandler_ifConnected(kind) ==
  /\ tasks' = Append(tasks, [kind |-> kind, st |-> "disconnecting", disc |-> "pending"])
  /\ disconnectCalls' = IF connectOutcome = "ok" THEN disconnectCalls + 1
                                                ELSE disconnectCalls
  /\ UNCHANGED <<closeCbs, disconnectDone, closeCalls, closeEmitted>>

\* lines 102-110 / 115-118: a handler logs and calls closeAllExternalServices,
\* which calls db.$disconnect() (line 94) and suspends.
StartHandler(kind) ==
  /\ tasks' = Append(tasks, [kind |-> kind, st |-> "disconnecting", disc |-> "pending"])
  /\ disconnectCalls' = disconnectCalls + 1
  /\ UNCHANGED <<closeCbs, disconnectDone, closeCalls, closeEmitted>>

\* lines 102-110: the unhandledRejection listener is invoked
UnhandledRejection ==
  /\ Running /\ Idle
  /\ pendingRej > 0 /\ rejectionReg
  /\ Len(tasks) < MaxTasks
  /\ pendingRej' = pendingRej - 1
  /\ StartHandler("unhandledRejection")
  /\ UNCHANGED <<portV, pc, regs, startupV, srvV, envV, histV, exitV>>

\* A rejection is dispatched while line 102 has not registered the listener:
\* the runtime either only warns or raises it as an uncaught exception.
UnhandledRejectionDefault(mode) ==
  /\ Running /\ Idle
  /\ pendingRej > 0 /\ ~rejectionReg
  /\ pendingRej' = pendingRej - 1
  /\ IF mode = "throw"
       THEN /\ exitBy' = FatalPath(uncaughtReg).by
            /\ exitCode' = FatalPath(uncaughtReg).code
            /\ uncaughtSeen' = uncaughtSeen + 1
       ELSE UNCHANGED <<exitV, uncaughtSeen>>
  /\ UNCHANGED <<portV, pc, regs, startupV, srvV, envV, shutV, lastError, bindErrors>>

\* lines 115-118: the SIGINT listener is invoked
Sigint ==
  /\ Running /\ Idle
  /\ sigintReg /\ sigintsSent < MaxSigint
  /\ Len(tasks) < MaxTasks
  /\ sigintsSent' = sigintsSent + 1
  /\ StartHandler("SIGINT")
  /\ UNCHANGED <<portV, pc, regs, startupV, srvV, pendingRej, faultsRaised, histV, exitV>>

\* SIGINT arrives while line 115 has not registered the listener: the
\* operating system's default action ends the process.
SigintDefault ==
  /\ Running
  /\ ~sigintReg /\ sigintsSent < MaxSigint
  /\ sigintsSent' = sigintsSent + 1
  /\ exitBy' = "signal" /\ exitCode' = -1
  /\ UNCHANGED <<portV, pc, regs, startupV, srvV, pendingRej, faultsRaised, shutV, histV>>

\* lines 94-98 then 112 / 119-120: db.$disconnect() of handler invocation i
\* settles; closeAllExternalServices resolves and the handler calls
\* server.close(cb).  server.close releases the handle and registers cb for
\* the 'close' event.
DisconnectSettle(i, outcome) ==
  /\ Running /\ Idle
  /\ i \in 1..Len(tasks) /\ tasks[i].st = "disconnecting"
  /\ disconnectDone' = disconnectDone + 1
  /\ IF outcome = "ok" \/ closeAllExternalServices(outcome) = "resolved"
       THEN /\ tasks' = [tasks EXCEPT ![i].st = "closing", ![i].disc = outcome]
            /\ closeCalls' = closeCalls + 1
            /\ closeCbs' = Append(closeCbs,
                 [task |-> i, kind |-> tasks[i].kind,
                  code |-> ExitCodeFor(tasks[i].kind)])
            /\ listener' = IF listener \in {"bound", "listening"} THEN "closed" ELSE listener
            /\ serverEvent' = IF serverEvent = ListeningEvent THEN NoEvent ELSE serverEvent
            /\ UNCHANGED pendingRej
       ELSE /\ tasks' = [tasks EXCEPT ![i].st = "rejected", ![i].disc = outcome]
            /\ pendingRej' = pendingRej + 1
            /\ UNCHANGED <<closeCalls, closeCbs, listener, serverEvent>>
  /\ UNCHANGED <<portV, pc, regs, startupV, readiness, envV, disconnectCalls, closeEmitted,
                 histV, exitV>>

\* Variant: server.close is called without the callback, so the 'close' event
\* ends nothing.
CloseEmit_lost ==
  /\ Running /\ Idle
  /\ closeCbs # <<>> /\ ~closeEmitted
  /\ closeEmitted' = TRUE
  /\ UNCHANGED <<portV, pc, regs, startupV, srvV, pendingRej, envV, tasks, closeCbs,
                 disconnectCalls, disconnectDone, closeCalls, histV, exitV>>

\* lines 112 / 120: the listener emits 'close'; the callbacks run in the order
\* of their registration and the first one calls process.exit.
CloseEmit ==
  /\ Running /\ Idle
  /\ closeCbs # <<>>
  /\ closeEmitted' = TRUE
  /\ exitBy' = Head(closeCbs).kind
  /\ exitCode' = Head(closeCbs).code
  /\ UNCHANGED <<portV, pc, regs, startupV, srvV, pendingRej, envV, tasks, closeCbs,
                 disconnectCalls, disconnectDone, closeCalls, histV>>

Next ==
  \/ ResolvePort
  \/ RegisterUncaught
  \/ StartConnect
  \/ \E o \in {"ok", "failed"} : ConnectSettle(o)
  \/ \E o \in {"ok", "syncThrow", "asyncFail"} : RunInitializer(o)
  \/ RegisterRejection
  \/ RegisterSigint
  \/ \E o \in {"ok", "throw"} \cup ErrorCodes : Listen(o)
  \/ RegisterOnError
  \/ RegisterOnListening
  \/ EmitListening
  \/ \E e \in RuntimeErrors : RuntimeError(e)
  \/ EmitError
  \/ UncaughtException
  \/ RaiseFault
  \/ UnhandledRejection
  \/ \E m \in {"warn", "throw"} : UnhandledRejectionDefault(m)
  \/ Sigint
  \/ SigintDefault
  \/ \E i \in 1..MaxTasks, o \in {"ok", "failed"} : DisconnectSettle(i, o)
  \/ CloseEmit

Spec == Init /\ [][Next]_vars

\* The event loop dispatches a pending rejection to a registered listener;
\* every db.$disconnect() that was started settles; a listener whose close was
\* requested emits 'close'.
Fairness ==
  /\ WF_vars(UnhandledRejection)
  /\ WF_vars(\E i \in 1..MaxTasks, o \in {"ok", "failed"} : DisconnectSettle(i, o))
  /\ WF_vars(CloseEmit)

FairSpec == Spec /\ Fairness

\* normalizePort applied to every PORT string of the bounded set.
PortSpec == PortInit /\ [][ResolvePort]_vars

TypeOK ==
  /\ port \in {Unresolved, NumberValue(5051)}
  /\ pc \in {"resolvePort", "regUncaught", "connect", "connecting", "initialize", "regRejection",
             "regSigint", "listen", "regOnError", "regOnListening", "done", "aborted"}
  /\ connectOutcome \in {"none", "pending", "ok", "failed"}
  /\ listener \in {"none", "bound", "listening", "closed"}
  /\ exitBy \in {"none", "SIGINT", "unhandledRejection", "bindError",
                 "uncaughtException", "crash", "signal"}
  /\ exitCode \in {-1, 0, 1}
  /\ Len(tasks) <= MaxTasks

\* ============================================================= properties
Classified == {"EACCES", "EADDRINUSE"}
TriggerExits == {"bindError", "unhandledRejection", "SIGINT"}

\* C1: in every shutdown path (bind error, unhandled fault, interrupt) the
\* dependency disconnect has been attempted and has settled before the
\* listener close is started, and the listener close has completed before the
\* process exits.
C1_ShutdownSequenced ==
  /\ closeCalls <= disconnectDone
  /\ exitBy \in TriggerExits =>
       (disconnectCalls >= 1 /\ disconnectDone >= 1 /\ closeCalls >= 1 /\ closeEmitted)

\* C2: whatever the number and interleaving of trigger firings, db.$disconnect
\* is called at most once and server.close is called at most once.
C2_ReleaseAtMostOnce ==
  disconnectCalls <= 1 /\ closeCalls <= 1

\* C3: when exactly one termination trigger has fired, the exit code is the
\* one of that trigger: SIGINT 0, classified listen error 1, unhandled
\* rejection 1.
C3_ExitCodeFixedByTrigger ==
  (/\ exitBy \in TriggerExits
   /\ Len(tasks) + bindErrors = 1
   /\ uncaughtSeen = 0)
  => /\ bindErrors = 1 =>
          (exitBy = "bindError" /\ exitCode = 1 /\ lastError.syscall = "listen"
           /\ lastError.code \in Classified)
     /\ bindErrors = 0 =>
          (exitBy = tasks[1].kind
           /\ exitCode = (IF tasks[1].kind = "SIGINT" THEN 0 ELSE 1))

C3_Witness ==
  /\ exitBy = "SIGINT" /\ exitCode = 0
  /\ Len(tasks) = 1 /\ bindErrors = 0 /\ uncaughtSeen = 0

\* C4: a listen error with code EADDRINUSE or EACCES makes the process exit
\* with code 1 only after the dependency disconnect was attempted and the
\* listener was closed.
C4_BindFaultRunsShutdown ==
  (lastError.syscall = "listen" /\ lastError.code \in Classified /\ ~Running)
  => (exitCode = 1 /\ disconnectCalls >= 1 /\ closeCalls >= 1)

\* C5 as stated: a listen error with another code ends the process through the
\* runtime's fatal crash path, not through a controlled exit with code 1.
C5_UnclassifiedCrashes ==
  (lastError.syscall = "listen" /\ lastError.code \notin Classified /\ ~Running)
  => (exitBy = "crash" /\ exitCode # 1)

\* C5 amended: a listen error with another code is not handled by onError; it
\* is thrown again, reaches the uncaughtException listener and the process
\* exits with code 1, with no disconnect and no listener close on that path.
C5_UnclassifiedReraisedToGuard ==
  [][(serverEvent.name = "error" /\ serverEvent.syscall = "listen"
      /\ serverEvent.code \notin Classified /\ lastError' = serverEvent
      /\ lastError # serverEvent)
     => (/\ exitBy' = "uncaughtException" /\ exitCode' = 1
         /\ bindErrors' = bindErrors /\ uncaughtSeen' = uncaughtSeen + 1
         /\ disconnectCalls' = disconnectCalls /\ closeCalls' = closeCalls)]_vars

C5_Witness ==
  /\ lastError.syscall = "listen" /\ lastError.code = "EADDRNOTAVAIL"
  /\ exitBy = "uncaughtException" /\ exitCode = 1

\* C6: a failed db.$connect() is only reported: the start-up goes on, the
\* listener bind is attempted, and the start-up function is not aborted by it.
C6_ConnectFailureTolerated ==
  connectOutcome = "failed" =>
    /\ pc # "connecting"
    /\ pc = "aborted" => (initOutcome = "syncThrow" \/ listenCalled)
    /\ pc \in {"regOnError", "regOnListening", "done"} => listenCalled
    /\ (initOutcome \in {"none", "ok"} /\ faultsRaised = 0 /\ ~listenCalled)
         => pendingRej = 0

C6_Witness ==
  connectOutcome = "failed" /\ listener = "listening" /\ readiness

\* C7: a failed db.$disconnect() in a handler started by SIGINT or by an
\* unhandled rejection is only reported: that handler still calls
\* server.close with the callback that exits with the handler's own code.
C7_DisconnectFailureTolerated ==
  \A i \in 1..Len(tasks) :
    tasks[i].disc = "failed" =>
      /\ tasks[i].st = "closing"
      /\ \E j \in 1..Len(closeCbs) :
           /\ closeCbs[j].task = i
           /\ closeCbs[j].code = (IF tasks[i].kind = "SIGINT" THEN 0 ELSE 1)

C7_Witness ==
  /\ exitBy = "SIGINT" /\ exitCode = 0 /\ closeEmitted
  /\ tasks[Head(closeCbs).task].disc = "failed"

\* C8: exit code 0 only after a SIGINT was received; the exits caused by a
\* classified bind error, an unhandled rejection or an uncaught exception use
\* code 1.
C8_ExitCodeZeroOnlyOnInterrupt ==
  /\ exitCode = 0 => (sigintsSent >= 1 /\ exitBy = "SIGINT")
  /\ exitBy \in {"bindError", "unhandledRejection", "uncaughtException"} => exitCode = 1

C8_Witness ==
  exitCode = 0 /\ exitBy = "SIGINT" /\ faultsRaised >= 1

\* C9: an uncaught exception makes the process exit at once with code 1; that
\* step starts no disconnect and does not close the listener.
C9_UncaughtGuardSkipsShutdown ==
  [][uncaughtSeen' > uncaughtSeen
     => (/\ exitBy' = "uncaughtException" /\ exitCode' = 1
         /\ disconnectCalls' = disconnectCalls /\ closeCalls' = closeCalls
         /\ tasks' = tasks /\ listener' = listener)]_vars

C9_Witness ==
  /\ exitBy = "uncaughtException" /\ exitCode = 1
  /\ connectOutcome = "ok" /\ listener = "listening"
  /\ disconnectCalls = 0 /\ closeCalls = 0

\* C10 as stated: whenever the bind has been started, the three triggers
\* (listener 'error', unhandledRejection, SIGINT) are registered.
C10_AllTriggersBeforeBind ==
  listenCalled => (rejectionReg /\ sigintReg /\ onErrorReg)

\* C10 amended: the unhandledRejection and SIGINT listeners are registered
\* before the bind is started; the listener's 'error' handler is registered
\* after server.listen, in the same synchronous run, so that no listener event
\* is dispatched while it is missing.
C10_TriggersBeforeBindEvents ==
  /\ listenCalled => (rejectionReg /\ sigintReg)
  /\ (Idle /\ serverEvent # NoEvent) => (onErrorReg /\ onListeningReg)
  /\ lastError # NoEvent => onErrorReg

C10_Witness ==
  /\ listenCalled /\ rejectionReg /\ sigintReg /\ ~onErrorReg
  /\ serverEvent.name = "error"

\* C11: with the fairness above, once a SIGINT or unhandledRejection handler
\* has been started, or a rejection is pending while the unhandledRejection
\* listener is registered, the process eventually exits; and an exit through
\* one of these handlers happens only after a db.$disconnect() has settled and
\* the listener's 'close' event was emitted.
C11_TriggerLeadsToExit ==
  /\ (Len(tasks) > 0) ~> ~Running
  /\ (pendingRej > 0 /\ rejectionReg /\ Idle) ~> ~Running
  /\ [](exitBy \in {"SIGINT", "unhandledRejection"}
          => (disconnectDone >= 1 /\ closeCalls >= 1 /\ closeEmitted))

C11_Witness ==
  /\ exitBy = "unhandledRejection" /\ exitCode = 1
  /\ Len(tasks) = 1 /\ sigintsSent = 0
  /\ disconnectDone = 1 /\ closeEmitted

\* C12: normalizePort has no side effect and returns the integer when the
\* string starts (after white space) with a base-10 integer >= 0, the string
\* itself when it holds no integer, and false when the integer is negative;
\* always one of the three.
RECURSIVE Pow10(_)
Pow10(k) == IF k = 0 THEN 1 ELSE 10 * Pow10(k - 1)

RECURSIVE PlaceSum(_, _, _)
PlaceSum(s, from, k) ==
  IF k = 0 THEN 0
  ELSE DigitVal(s[from + 1]) * Pow10(k - 1) + PlaceSum(s, from + 1, k - 1)

\* <<w, sg, k>>: s is w white-space characters, sg sign characters (0 or 1),
\* a maximal run of k >= 1 digits, and anything after it.
IntegerShapes(s) ==
  {x \in (0..Len(s)) \X (0..1) \X (1..Len(s)) :
     /\ x[1] + x[2] + x[3] <= Len(s)
     /\ \A i \in 1..x[1] : s[i] \in Whitespace
     /\ x[2] = 1 => s[x[1] + 1] \in {"-", "+"}
     /\ \A i \in 1..x[3] : IsDigit(s[x[1] + x[2] + i])
     /\ x[1] + x[2] + x[3] < Len(s) => ~IsDigit(s[x[1] + x[2] + x[3] + 1])}

IntegerOf(s, x) ==
  LET m == PlaceSum(s, x[1] + x[2], x[3]) IN
  IF x[2] = 1 /\ s[x[1] + 1] = "-" THEN 0 - m ELSE m

C12_PortResolverClassifies ==
  port # Unresolved =>
    LET s == EnvPort(config) IN
    /\ port.tag \in {"number", "string", "false"}
    /\ IntegerShapes(s) = {} => port = StringValue(s)
    /\ \A x \in IntegerShapes(s) :
         /\ IntegerOf(s, x) >= 0 => port = NumberValue(IntegerOf(s, x))
         /\ IntegerOf(s, x) < 0 => port = FalseValue
    /\ pc = "regUncaught" =>
         (/\ ~uncaughtReg /\ ~rejectionReg /\ ~sigintReg /\ ~listenCalled
          /\ connectOutcome = "none" /\ listener = "none" /\ Running)

C12_Witness ==
  config = <<" ", "-", "5">> /\ port = FalseValue

\* C13: when a SIGINT and an unhandled rejection both fire before the exit, the
\* second one does nothing and the exit code is the one of the trigger that
\* fired first, in whatever order the disconnects and closes complete.
C13_FirstTriggerWins ==
  (exitBy \in {"SIGINT", "unhandledRejection"} /\ Len(tasks) >= 1)
  => (/\ exitBy = tasks[1].kind
      /\ exitCode = (IF tasks[1].kind = "SIGINT" THEN 0 ELSE 1))

\* C14: once a termination trigger has started the shutdown, the listener
\* never afterwards enters the listening state and readiness is not reported.
C14_NoListeningAfterShutdown ==
  [][tasks # <<>>
     => (/\ readiness' => readiness
         /\ listener' = "listening" => listener = "listening")]_vars

\* C15: no db.$disconnect() is started while db.$connect() is in flight or
\* before it was started, and db.$connect() is not started once a disconnect
\* was.
C15_DependencyPhaseOrder ==
  /\ connectOutcome \in {"none", "pending"} => (disconnectCalls = 0 /\ tasks = <<>>)
  /\ disconnectCalls > 0 => pc \notin {"resolvePort", "regUncaught", "connect", "connecting"}

C15_Witness ==
  /\ connectOutcome = "pending" /\ sigintsSent = 1
  /\ exitBy = "signal" /\ disconnectCalls = 0

\* C16: an 'error' event whose syscall is not 'listen' is thrown again by
\* onError whatever its code: that step starts no disconnect, closes no
\* listener and is not the friendly exit of the classified listen errors.
C16_NonListenErrorRethrown ==
  [][(serverEvent.name = "error" /\ serverEvent.syscall # "listen"
      /\ lastError' = serverEvent /\ lastError # serverEvent)
     => (/\ bindErrors' = bindErrors /\ exitBy' # "bindError"
         /\ uncaughtSeen' = uncaughtSeen + 1
         /\ tasks' = tasks /\ disconnectCalls' = disconnectCalls
         /\ closeCalls' = closeCalls /\ listener' = listener)]_vars

C16_Witness ==
  /\ lastError = ErrorEvent("accept", "EADDRINUSE")
  /\ bindErrors = 0 /\ uncaughtSeen = 1 /\ exitBy = "uncaughtException"
  /\ disconnectCalls = 0 /\ closeCalls = 0

\* C17: server.listen is called only after db.$connect() has settled, with
\* either outcome; readiness is reported only after a successful bind and
\* never after a bind failure.
C17_StartupSequenced ==
  /\ listenCalled => connectOutcome \in {"ok", "failed"}
  /\ readiness => (listenCalled /\ listener \in {"listening", "closed"})
  /\ (lastError.syscall = "listen" \/ serverEvent.syscall = "listen")
       => (~readiness /\ listener = "none")

C17_Witness ==
  /\ readiness /\ listener = "listening" /\ connectOutcome = "ok"
  /\ pc = "done" /\ Running

\* C18: a failure of the initializer, thrown while it is loaded or raised
\* later, neither keeps server.listen from being called nor starts a shutdown.
C18_InitializerFailureNotSurfaced ==
  initOutcome \in {"syncThrow", "asyncFail"} =>
    /\ pc = "aborted" => listenCalled
    /\ (faultsRaised = 0 /\ pc # "aborted") =>
         (\A i \in 1..Len(tasks) : tasks[i].kind # "unhandledRejection")

\* C19: every invocation of the SIGINT or unhandledRejection handler calls
\* db.$disconnect(), whether db.$connect() had succeeded or failed.
C19_DisconnectAttemptedRegardless ==
  /\ disconnectCalls = Len(tasks)
  /\ exitBy \in {"SIGINT", "unhandledRejection"} => disconnectCalls >= 1

C19_Witness ==
  /\ connectOutcome = "failed" /\ exitBy = "SIGINT"
  /\ disconnectCalls = 1 /\ disconnectDone = 1
====
